---- MODULE Spec2Model ----
(***************************************************************************)
(* Model of githubRepoStats.py: two tools (get_repository_info and         *)
(* get_user_info) that call make_github_request, which opens an            *)
(* httpx.AsyncClient scope, issues one POST to the GraphQL endpoint,       *)
(* classifies the outcome and returns the parsed body or None.             *)
(*                                                                         *)
(* A text is a sequence of lines; a line is a sequence of string           *)
(* fragments (the pieces an f-string concatenates).  A JSON value that may *)
(* be null or absent is a string drawn from a domain that excludes the two *)
(* markers JNull and JAbsent.                                              *)
(***************************************************************************)
EXTENDS Integers, Sequences, FiniteSets, TLC

\* ------------------------------------------------------------------ bounds
MaxInv == 2          \* tool invocations the host issues (concurrently)
MaxReleases == 1     \* length of releases.nodes in a response

\* ------------------------------------------------------- program constants
ClientArity == 2     \* make_github_request(query, variables)

\* ------------------------------------------------------------ JSON values
JNull == "<null>"
JAbsent == "<absent>"

Invs == 1..MaxInv
Owners == {"octocat", "torvalds"}
RepoNames == {"Hello-World", "linux"}
Usernames == {"octocat", "torvalds"}

\* str(x) of Python for a JSON string or null: None formats as "None".
PyStr(v) == IF v = JNull THEN "None" ELSE v

Digit(d) == CASE d = 0 -> "0" [] d = 1 -> "1" [] d = 2 -> "2" [] d = 3 -> "3"
              [] d = 4 -> "4" [] d = 5 -> "5" [] d = 6 -> "6" [] d = 7 -> "7"
              [] d = 8 -> "8" [] d = 9 -> "9"

\* str(n) of Python for a non-negative integer, as a sequence of digits.
RECURSIVE IntStr(_)
IntStr(n) == IF n < 10 THEN <<Digit(n)>> ELSE IntStr(n \div 10) \o <<Digit(n % 10)>>

\* ', '.join(xs)
RECURSIVE Join(_)
Join(xs) == IF Len(xs) = 0 THEN <<>>
            ELSE IF Len(xs) = 1 THEN <<xs[1]>>
            ELSE <<xs[1], ", ">> \o Join(Tail(xs))

\* --------------------------------------------------------- remote payloads
\* A node of releases.nodes: null, or {tagName, publishedAt}.
ReleaseNodes ==
    { [isNull |-> TRUE, tagName |-> JNull, publishedAt |-> JNull] } \cup
    [ isNull : {FALSE}, tagName : {"v1.0"},
      publishedAt : {"2024-01-01T00:00:00Z", JNull} ] \cup
    { [isNull |-> FALSE, tagName |-> "v2.0", publishedAt |-> "2025-06-30T12:00:00Z"] }

RECURSIVE SeqsUpTo(_, _)
SeqsUpTo(S, n) == IF n = 0 THEN { <<>> }
                  ELSE SeqsUpTo(S, n - 1) \cup
                       { Append(s, x) : s \in { t \in SeqsUpTo(S, n - 1) : Len(t) = n - 1 }, x \in S }

\* releases.nodes: null, or a list of nodes.
ReleaseLists ==
    { [isNull |-> TRUE, nodes |-> <<>>] } \cup
    [ isNull : {FALSE}, nodes : SeqsUpTo(ReleaseNodes, MaxReleases) ]

\* languages: "absent" (no key), "null", "nodesNull" (nodes is null), "nodes".
DefaultLanguages == [kind |-> "nodes", nodes |-> <<"Python", "C">>]
LanguageVariants ==
    { [kind |-> "absent", nodes |-> <<>>], [kind |-> "null", nodes |-> <<>>],
      [kind |-> "nodesNull", nodes |-> <<>>], [kind |-> "nodes", nodes |-> <<>>],
      [kind |-> "nodes", nodes |-> <<"Python">>] }

DefaultReleases == [isNull |-> FALSE, nodes |-> <<>>]

DefaultRepo ==
    [ name |-> "Hello-World", description |-> "My first repository",
      url |-> "https://github.com/octocat/Hello-World",
      stargazerCount |-> 42, forkCount |-> 7, issues |-> 3, pullRequests |-> 0,
      primaryLanguage |-> "Python", languages |-> DefaultLanguages,
      releases |-> DefaultReleases ]

\* The repository objects a 2xx body may carry.
RepoObjects ==
    { [DefaultRepo EXCEPT !.description = d, !.primaryLanguage = p, !.releases = r] :
        d \in {JAbsent, JNull, "My first repository"},
        p \in {JNull, "Python"},
        r \in ReleaseLists } \cup
    { [DefaultRepo EXCEPT !.languages = l] : l \in LanguageVariants }

DefaultUser ==
    [ name |-> JNull, login |-> "octocat", bio |-> JAbsent, company |-> "GitHub",
      location |-> JNull, email |-> JNull, websiteUrl |-> JNull,
      repositories |-> 8, followers |-> 20, following |-> 9,
      totalCommitContributions |-> 120 ]

\* What client.post produced.  outcome: the await raised TimeoutException
\* ("timeout"), raised another exception ("transport"), or returned a response.
\* bodyType "array0" is the empty JSON array, "array" a non-empty one.
\* entity is data.repository / data.user: absent, null, {} or an object.
NoResponse ==
    [ outcome |-> "none", status |-> 0, parses |-> FALSE, bodyType |-> "object",
      errors |-> "absent", data |-> "absent", entity |-> "absent",
      repo |-> DefaultRepo, user |-> DefaultUser ]

OkBody == [NoResponse EXCEPT !.outcome = "response", !.status = 200, !.parses = TRUE,
                             !.data = "object", !.entity = "object"]

\* The full range of outcomes of one POST.
Responses ==
    { [NoResponse EXCEPT !.outcome = o] : o \in {"timeout", "transport"} } \cup
    { [OkBody EXCEPT !.status = s, !.parses = p, !.errors = e] :
        s \in {301, 401, 500}, p \in BOOLEAN, e \in {"absent", "nonempty"} } \cup
    { [OkBody EXCEPT !.status = s, !.parses = FALSE] : s \in {200, 201} } \cup
    { [OkBody EXCEPT !.bodyType = b] : b \in {"array0", "array", "number"} } \cup
    { [OkBody EXCEPT !.errors = e, !.data = d, !.entity = "absent"] :
        e \in {"absent", "empty", "nonempty"}, d \in {"absent", "null"} } \cup
    { [OkBody EXCEPT !.errors = e, !.entity = n] :
        e \in {"absent", "empty", "nonempty"}, n \in {"absent", "null", "empty"} } \cup
    { [OkBody EXCEPT !.errors = e, !.repo = r] :
        e \in {"absent", "empty", "nonempty"}, r \in RepoObjects }

\* One representative of each path, for the runs with several invocations.
CoarseResponses ==
    { [NoResponse EXCEPT !.outcome = "timeout"],
      [NoResponse EXCEPT !.outcome = "transport"],
      [OkBody EXCEPT !.status = 500],
      [OkBody EXCEPT !.errors = "nonempty"],
      [OkBody EXCEPT !.entity = "null"],
      OkBody }

\* ------------------------------------------------------------ return values
Str(lines) == [kind |-> "str", exc |-> "", text |-> lines]
Raise(e) == [kind |-> "raise", exc |-> e, text |-> <<>>]
NoResult == [kind |-> "none", exc |-> "", text |-> <<>>]

\* What make_github_request hands back: None or the parsed body, and the
\* diagnostic line it printed (<<>> when it printed nothing).
ReturnNone(line) == [isNone |-> TRUE, body |-> NoResponse, printed |-> line]
ReturnBody(r) == [isNone |-> FALSE, body |-> r, printed |-> <<>>]
NoReturn == [isNone |-> TRUE, body |-> NoResponse, printed |-> <<>>]

\* ----------------------------------------------------- make_github_request
\* response.raise_for_status() passes for 2xx only.
IsSuccess(status) == status >= 200 /\ status <= 299

\* Mutant of HasErrorsKey: tests for a non-empty errors array.
HasErrorsNonEmpty(r) == r.bodyType = "object" /\ r.errors = "nonempty"

\* "errors" in result, for a result that is a JSON object or array.
HasErrorsKey(r) == r.bodyType = "object" /\ r.errors # "absent"

\* Mutant of make_github_request_body: the body is parsed and searched for
\* errors before the status is looked at.
make_github_request_parse_first(r) ==
    IF r.outcome = "timeout" THEN ReturnNone(<<"Request timed out">>)
    ELSE IF r.outcome = "transport" THEN ReturnNone(<<"Unexpected error: ", "transport">>)
    ELSE IF ~r.parses THEN ReturnNone(<<"Unexpected error: ", "JSONDecodeError">>)
    ELSE IF r.bodyType = "number" THEN ReturnNone(<<"Unexpected error: ", "TypeError">>)
    ELSE IF HasErrorsKey(r) THEN ReturnNone(<<"GraphQL Errors: ", r.errors>>)
    ELSE IF ~IsSuccess(r.status)
         THEN ReturnNone(<<"HTTP error occurred: ">> \o IntStr(r.status))
    ELSE ReturnBody(r)

\* Lines 20-45: the try block after client.post has produced r.
make_github_request_body(r) ==
    IF r.outcome = "timeout" THEN ReturnNone(<<"Request timed out">>)
    ELSE IF r.outcome = "transport" THEN ReturnNone(<<"Unexpected error: ", "transport">>)
    ELSE IF ~IsSuccess(r.status)
         THEN ReturnNone(<<"HTTP error occurred: ">> \o IntStr(r.status))
    ELSE IF ~r.parses THEN ReturnNone(<<"Unexpected error: ", "JSONDecodeError">>)
    ELSE IF r.bodyType = "number" THEN ReturnNone(<<"Unexpected error: ", "TypeError">>)
    ELSE IF HasErrorsKey(r) THEN ReturnNone(<<"GraphQL Errors: ", r.errors>>)
    ELSE ReturnBody(r)

\* ------------------------------------------------------------ the handlers
\* `not data`: None, {} and [] are false.
Falsy(ret) ==
    \/ ret.isNone
    \/ ret.body.bodyType = "array0"
    \/ ret.body.bodyType = "object" /\ ret.body.errors = "absent" /\ ret.body.data = "absent"

\* "data" in data
HasDataKey(b) == b.bodyType = "object" /\ b.data # "absent"

\* Mutant of NoData: only None is taken for a failed call.
NoDataNoneOnly(ret) == ret.isNone

\* Lines 93 and 158: not data or "data" not in data
NoData(ret) == Falsy(ret) \/ ~HasDataKey(ret.body)

\* str(d.get(key, default)): the default is used only when the key is absent.
DictGet(v, default) == IF v = JAbsent THEN default ELSE PyStr(v)

\* Lines 101-103: the first node when nodes is a non-empty list, else None.
latest_release(repo) ==
    IF ~repo.releases.isNull /\ Len(repo.releases.nodes) > 0
    THEN repo.releases.nodes[1]
    ELSE [isNull |-> TRUE, tagName |-> JNull, publishedAt |-> JNull]

\* str + None raises TypeError (line 115).
ReleaseRaises(repo) ==
    LET lr == latest_release(repo)
    IN  ~lr.isNull /\ (lr.tagName = JNull \/ lr.publishedAt = JNull)

\* Mutant of ReleaseLine: the publication time is left out.
ReleaseLineTagOnly(repo) ==
    LET lr == latest_release(repo)
    IN  IF ~lr.isNull THEN <<"Latest Release: ", lr.tagName>>
        ELSE <<"Latest Release: ", "None">>

\* Line 115.
ReleaseLine(repo) ==
    LET lr == latest_release(repo)
    IN  IF ~lr.isNull
        THEN <<"Latest Release: ", lr.tagName, " (", lr.publishedAt, ")">>
        ELSE <<"Latest Release: ", "None">>

\* Line 113.
PrimaryLanguageLine(repo) ==
    <<"Primary Language: ",
      IF repo.primaryLanguage # JNull THEN repo.primaryLanguage ELSE "None">>

\* Lines 105-116: the text between the triple quotes, split at its newlines.
RepoSummary(repo) ==
    << <<>>,
       <<"Repository: ", repo.name>>,
       <<"Description: ", DictGet(repo.description, "No description")>>,
       <<"URL: ", repo.url>>,
       <<"Stars: ">> \o IntStr(repo.stargazerCount),
       <<"Forks: ">> \o IntStr(repo.forkCount),
       <<"Open Issues: ">> \o IntStr(repo.issues),
       <<"Open Pull Requests: ">> \o IntStr(repo.pullRequests),
       PrimaryLanguageLine(repo),
       <<"Languages: ">> \o Join(repo.languages.nodes),
       ReleaseLine(repo),
       <<>> >>

\* Line 98.
RepoNotFound(owner, name) == Str(<< <<"Repository ", owner, "/", name, " not found.">> >>)

UnableRepo == Str(<< <<"Unable to fetch repository information.">> >>)
UnableUser == Str(<< <<"Unable to fetch user information.">> >>)

\* Lines 93-116: get_repository_info after make_github_request returned ret.
get_repository_info_format(owner, name, ret) ==
    IF NoData(ret) THEN UnableRepo
    ELSE IF ret.body.data = "null" THEN Raise("TypeError")
    ELSE IF ret.body.entity = "absent" THEN Raise("KeyError")
    ELSE IF ret.body.entity \in {"null", "empty"} THEN RepoNotFound(owner, name)
    ELSE LET repo == ret.body.repo
         IN  IF repo.languages.kind = "absent" THEN Raise("KeyError")
             ELSE IF repo.languages.kind \in {"null", "nodesNull"} THEN Raise("TypeError")
             ELSE IF ReleaseRaises(repo) THEN Raise("TypeError")
             ELSE Str(RepoSummary(repo))

\* Lines 165-177.
UserSummary(user) ==
    << <<>>,
       <<"Name: ", DictGet(user.name, "Not provided")>>,
       <<"Username: ", PyStr(user.login)>>,
       <<"Bio: ", DictGet(user.bio, "No bio")>>,
       <<"Company: ", DictGet(user.company, "Not provided")>>,
       <<"Location: ", DictGet(user.location, "Not provided")>>,
       <<"Email: ", DictGet(user.email, "Not provided")>>,
       <<"Website: ", DictGet(user.websiteUrl, "Not provided")>>,
       <<"Public Repositories: ">> \o IntStr(user.repositories),
       <<"Followers: ">> \o IntStr(user.followers),
       <<"Following: ">> \o IntStr(user.following),
       <<"Total Contributions: ">> \o IntStr(user.totalCommitContributions),
       <<>> >>

\* Lines 158-177: get_user_info after make_github_request returned ret.
get_user_info_format(username, ret) ==
    IF NoData(ret) THEN UnableUser
    ELSE IF ret.body.data = "null" THEN Raise("TypeError")
    ELSE IF ret.body.entity = "absent" THEN Raise("KeyError")
    ELSE IF ret.body.entity \in {"null", "empty"}
         THEN Str(<< <<"User ", username, " not found.">> >>)
    ELSE Str(UserSummary(ret.body.user))

\* -------------------------------------------------------------- the state
VARIABLES
    pc,         \* pc[i]: where invocation i stands
    tool,       \* tool[i]: the tool the host invoked
    args,       \* args[i]: the tool's arguments, in order
    remote,     \* remote[i]: the outcome the remote call of invocation i will have
    variables,  \* variables[i]: the dict the handler built (lines 87, 151)
    client,     \* client[i]: the AsyncClient scope the invocation holds, 0 if none
    calls,      \* calls[i]: executions of make_github_request
    posts,      \* posts[i]: HTTP POSTs issued
    got,        \* got[i]: what client.post produced, and whose request it answered
    ret,        \* ret[i]: what make_github_request returned
    result,     \* result[i]: what the tool returned to the host, or raised
    nextScope,  \* AsyncClient objects constructed so far
    open,       \* the AsyncClient scopes that are open
    wire        \* wire[s]: the request and the response in flight on scope s

vars == <<pc, tool, args, remote, variables, client, calls, posts, got, ret, result,
          nextScope, open, wire>>

IdleWire == [state |-> "idle", from |-> 0, req |-> {}, resp |-> NoResponse]
NoGot == [resp |-> NoResponse, from |-> 0, req |-> {}]

\* The calls a host may issue, as <<tool, arguments>>.
Calls ==
    { <<"get_repository_info", <<o, n>>>> : o \in Owners, n \in RepoNames } \cup
    { <<"get_user_info", <<u>>>> : u \in Usernames }

\* For the runs with several invocations: every exit path of the client for
\* one repository, the two paths that use the arguments for another, and the
\* user tool.
CoarseInvocations ==
    { <<"get_repository_info", <<"octocat", "Hello-World">>, r>> : r \in CoarseResponses } \cup
    { <<"get_repository_info", <<"octocat", "linux">>, r>> :
        r \in {OkBody, [OkBody EXCEPT !.entity = "null"]} } \cup
    { <<"get_user_info", <<"octocat">>, OkBody>> }

Init ==
    /\ pc = [i \in Invs |-> "idle"]
    /\ tool = [i \in Invs |-> "none"]
    /\ args = [i \in Invs |-> <<>>]
    /\ remote = [i \in Invs |-> NoResponse]
    /\ variables = [i \in Invs |-> {}]
    /\ client = [i \in Invs |-> 0]
    /\ calls = [i \in Invs |-> 0]
    /\ posts = [i \in Invs |-> 0]
    /\ got = [i \in Invs |-> NoGot]
    /\ ret = [i \in Invs |-> NoReturn]
    /\ result = [i \in Invs |-> NoResult]
    /\ nextScope = 0
    /\ open = {}
    /\ wire = [s \in Invs |-> IdleWire]

\* Lines 87 and 151: the variables dict, as a set of <<key, value>>.
BuildVariables(t, a) ==
    IF t = "get_repository_info" THEN { <<"owner", a[1]>>, <<"name", a[2]>> }
    ELSE { <<"username", a[1]>> }

\* The positional arguments the handler passes to make_github_request:
\* (query, variables) at lines 88-91, (query, variables, GITHUB_TOKEN) at 152-156.
PassedArgs(t) == IF t = "get_repository_info" THEN 2 ELSE 3

\* Mutant of NewScope: one client object serves every call.
SharedScope(n) == 1

\* Line 19: httpx.AsyncClient() constructs a new object at each call.
NewScope(n) == n + 1

\* The host invokes a tool; the handler builds its variables.  r is what the
\* remote call of this invocation will come to.
Invoke(i, t, a, r) ==
    /\ pc[i] = "idle"
    /\ pc' = [pc EXCEPT ![i] = "called"]
    /\ tool' = [tool EXCEPT ![i] = t]
    /\ args' = [args EXCEPT ![i] = a]
    /\ remote' = [remote EXCEPT ![i] = r]
    /\ variables' = [variables EXCEPT ![i] = BuildVariables(t, a)]
    /\ UNCHANGED <<client, calls, posts, got, ret, result, nextScope, open, wire>>

\* The handler calls make_github_request.  A call with the wrong number of
\* positional arguments raises TypeError in the handler; otherwise the
\* function is entered and `async with httpx.AsyncClient()` opens a scope.
CallClient(i) ==
    /\ pc[i] = "called"
    /\ IF PassedArgs(tool[i]) # ClientArity
       THEN /\ result' = [result EXCEPT ![i] = Raise("TypeError")]
            /\ pc' = [pc EXCEPT ![i] = "done"]
            /\ UNCHANGED <<client, calls, nextScope, open, wire>>
       ELSE /\ calls' = [calls EXCEPT ![i] = @ + 1]
            /\ nextScope' = NewScope(nextScope)
            /\ client' = [client EXCEPT ![i] = nextScope']
            /\ open' = open \cup {nextScope'}
            /\ pc' = [pc EXCEPT ![i] = "open"]
            /\ UNCHANGED <<result, wire>>
    /\ UNCHANGED <<tool, args, remote, variables, posts, got, ret>>

\* Lines 21-26: client.post sends {query, variables} and the task suspends.
Post(i) ==
    /\ pc[i] = "open"
    /\ posts' = [posts EXCEPT ![i] = @ + 1]
    /\ wire' = [wire EXCEPT ![client[i]] =
                   [state |-> "sent", from |-> i, req |-> variables[i],
                    resp |-> NoResponse]]
    /\ pc' = [pc EXCEPT ![i] = "await"]
    /\ UNCHANGED <<tool, args, remote, variables, client, calls, got, ret, result,
                   nextScope, open>>

\* The remote API (or the 30 s timer, or the transport) settles the request
\* in flight on scope s.
Respond(s) ==
    /\ s \in open
    /\ wire[s].state = "sent"
    /\ wire' = [wire EXCEPT ![s].state = "answered", ![s].resp = remote[wire[s].from]]
    /\ UNCHANGED <<pc, tool, args, remote, variables, client, calls, posts, got, ret,
                   result, nextScope, open>>

\* Mutant of Resume: a failed call goes back to post again.
ResumeRetry(i) ==
    /\ pc[i] = "await"
    /\ wire[client[i]].state = "answered"
    /\ got' = [got EXCEPT ![i] = [resp |-> wire[client[i]].resp,
                                  from |-> wire[client[i]].from,
                                  req |-> wire[client[i]].req]]
    /\ ret' = [ret EXCEPT ![i] = make_github_request_body(wire[client[i]].resp)]
    /\ wire' = [wire EXCEPT ![client[i]] = IdleWire]
    /\ IF ret'[i].isNone /\ posts[i] < 2
       THEN pc' = [pc EXCEPT ![i] = "open"] /\ open' = open
       ELSE pc' = [pc EXCEPT ![i] = "handler"] /\ open' = open \ {client[i]}
    /\ UNCHANGED <<tool, args, remote, variables, client, calls, posts, result,
                   nextScope>>

\* Lines 27-45: the await ends; the outcome is classified, the function
\* returns, and leaving the `async with` block closes the scope.
Resume(i) ==
    /\ pc[i] = "await"
    /\ wire[client[i]].state = "answered"
    /\ got' = [got EXCEPT ![i] = [resp |-> wire[client[i]].resp,
                                  from |-> wire[client[i]].from,
                                  req |-> wire[client[i]].req]]
    /\ ret' = [ret EXCEPT ![i] = make_github_request_body(wire[client[i]].resp)]
    /\ wire' = [wire EXCEPT ![client[i]] = IdleWire]
    /\ open' = open \ {client[i]}
    /\ pc' = [pc EXCEPT ![i] = "handler"]
    /\ UNCHANGED <<tool, args, remote, variables, client, calls, posts, result,
                   nextScope>>

\* Lines 93-116 and 158-177: the handler maps the return value to its text.
Format(i) ==
    /\ pc[i] = "handler"
    /\ result' = [result EXCEPT ![i] =
                     IF tool[i] = "get_repository_info"
                     THEN get_repository_info_format(args[i][1], args[i][2], ret[i])
                     ELSE get_user_info_format(args[i][1], ret[i])]
    /\ pc' = [pc EXCEPT ![i] = "done"]
    /\ UNCHANGED <<tool, args, remote, variables, client, calls, posts, got, ret,
                   nextScope, open, wire>>

\* One invocation, every outcome of the POST.
Next ==
    \/ \E c \in Calls, r \in Responses : Invoke(1, c[1], c[2], r)
    \/ CallClient(1)
    \/ Post(1)
    \/ \E s \in Invs : Respond(s)
    \/ Resume(1)
    \/ Format(1)

Spec == Init /\ [][Next]_vars

\* MaxInv invocations interleaved.
ConcurrentNext ==
    \/ \E i \in Invs, c \in CoarseInvocations : Invoke(i, c[1], c[2], c[3])
    \/ \E i \in Invs : CallClient(i)
    \/ \E i \in Invs : Post(i)
    \/ \E s \in Invs : Respond(s)
    \/ \E i \in Invs : Resume(i)
    \/ \E i \in Invs : Format(i)

ConcurrentSpec == Init /\ [][ConcurrentNext]_vars

\* ------------------------------------------------------ terms of the claims
Repo(i) == tool[i] = "get_repository_info"
User(i) == tool[i] = "get_user_info"
Done(i) == pc[i] = "done"
Returned(i) == pc[i] \in {"handler", "done"}

\* A response with a 2xx status whose body parses as a JSON object.
ParsedObject(r) ==
    r.outcome = "response" /\ r.status \in 200..299 /\ r.parses /\ r.bodyType = "object"

\* The four failure kinds of the client call.
IsTimeout(r) == r.outcome = "timeout"
IsHttpStatus(r) == r.outcome = "response" /\ r.status \notin 200..299
IsGraphqlErrors(r) == ParsedObject(r) /\ r.errors = "nonempty"
IsUnexpected(r) ==
    \/ r.outcome = "transport"
    \/ r.outcome = "response" /\ r.status \in 200..299
       /\ (~r.parses \/ r.bodyType = "number")
FailedCall(r) == IsTimeout(r) \/ IsHttpStatus(r) \/ IsGraphqlErrors(r) \/ IsUnexpected(r)

\* A 2xx parsed body, object or array, that has no `data` key.
PayloadWithoutData(r) ==
    /\ r.outcome = "response" /\ r.status \in 200..299 /\ r.parses
    /\ \/ r.bodyType \in {"array0", "array"}
       \/ r.bodyType = "object" /\ r.data = "absent"

\* A payload the client hands over whose data.repository / data.user is null.
EntityNull(r) ==
    ParsedObject(r) /\ r.errors = "absent" /\ r.data = "object" /\ r.entity = "null"

\* A payload the client hands over that carries a repository object whose
\* languages are a list.
SuccessfulRepo(r) ==
    /\ ParsedObject(r) /\ r.errors = "absent" /\ r.data = "object"
    /\ r.entity = "object" /\ r.repo.languages.kind = "nodes"

\* The text is the twelve-line summary (not one of the one-line messages).
IsSummary(res) == res.kind = "str" /\ Len(res.text) = 12

\* The line holds the fragments a, b, c one after the other.
Contains3(line, a, b, c) ==
    \E k \in 1..(Len(line) - 2) : line[k] = a /\ line[k + 1] = b /\ line[k + 2] = c
Contains1(line, a) == \E k \in 1..Len(line) : line[k] = a

\* The failure kind a diagnostic line reports.
Reported(line) ==
    IF Len(line) = 0 THEN "none"
    ELSE IF line[1] = "Request timed out" THEN "timeout"
    ELSE IF line[1] = "HTTP error occurred: " THEN "http-status"
    ELSE IF line[1] = "GraphQL Errors: " THEN "graphql-errors"
    ELSE IF line[1] = "Unexpected error: " THEN "unexpected"
    ELSE "other"

\* ----------------------------------------------------------------- claims
\* C1: every invocation of either tool, whatever the arguments and the
\* outcome of the remote call, ends by returning a string and never by
\* raising.
C1_AlwaysReturnsString ==
    \A i \in Invs : Done(i) => result[i].kind = "str"

\* C2: whenever the client call of get_repository_info fails (any failure
\* kind, any status code) or returns a payload without a `data` key, the tool
\* returns exactly "Unable to fetch repository information.".
C2_RepoUnableOnFailure ==
    \A i \in Invs :
        (Done(i) /\ Repo(i) /\ (FailedCall(remote[i]) \/ PayloadWithoutData(remote[i])))
        => result[i] = Str(<< <<"Unable to fetch repository information.">> >>)

C2_Witness ==
    \E i \in Invs :
        /\ Done(i) /\ Repo(i) /\ IsHttpStatus(remote[i]) /\ remote[i].status = 401
        /\ result[i] = Str(<< <<"Unable to fetch repository information.">> >>)

\* C3: get_user_info calls the GraphQL client with the variables {username},
\* and whenever that call fails or returns a payload without a `data` key it
\* returns exactly "Unable to fetch user information.".
C3_UserCallsClient ==
    \A i \in Invs :
        (Done(i) /\ User(i)) =>
            /\ calls[i] = 1
            /\ got[i].req = { <<"username", args[i][1]>> }
            /\ (FailedCall(remote[i]) \/ PayloadWithoutData(remote[i]))
               => result[i] = Str(<< <<"Unable to fetch user information.">> >>)

\* C4: when data.repository is null, get_repository_info(owner, name) returns
\* a not-found message that contains owner/name verbatim; when data.user is
\* null, get_user_info(username) returns a not-found message that contains
\* username verbatim; in neither case is a summary rendered.
C4_NotFoundNamesIdentifier ==
    \A i \in Invs :
        (Done(i) /\ EntityNull(remote[i])) =>
            /\ result[i].kind = "str"
            /\ Len(result[i].text) = 1
            /\ Contains1(result[i].text[1], " not found.")
            /\ Repo(i) => Contains3(result[i].text[1], args[i][1], "/", args[i][2])
            /\ User(i) => Contains1(result[i].text[1], args[i][1])

\* C5 as stated: for a 2xx response whose body parses as a JSON object,
\* make_github_request returns no payload if and only if the body has a
\* non-empty top-level `errors` array; otherwise it returns the parsed body
\* unchanged.
C5_NoneIffErrorsNonEmpty ==
    \A i \in Invs :
        (Returned(i) /\ calls[i] = 1 /\ ParsedObject(got[i].resp)) =>
            /\ ret[i].isNone <=> got[i].resp.errors = "nonempty"
            /\ ~ret[i].isNone => ret[i].body = got[i].resp

\* C5 amended: for a 2xx response whose body parses as a JSON object,
\* make_github_request returns no payload if and only if the body has a
\* top-level `errors` key, empty array included; otherwise it returns the
\* parsed body unchanged.
C5_NoneIffErrorsKey ==
    \A i \in Invs :
        (Returned(i) /\ calls[i] = 1 /\ ParsedObject(got[i].resp)) =>
            /\ ret[i].isNone <=> got[i].resp.errors # "absent"
            /\ ~ret[i].isNone => ret[i].body = got[i].resp

C5_Witness ==
    \E i \in Invs :
        /\ Returned(i) /\ calls[i] = 1 /\ ParsedObject(got[i].resp)
        /\ got[i].resp.errors = "empty" /\ got[i].resp.data = "object"
        /\ ret[i].isNone

\* C6: in the summary of get_repository_info, a null or absent `description`
\* renders the line "Description: No description" and a null
\* `primaryLanguage` renders "Primary Language: None"; no null marker shows.
C6_PlaceholdersForNull ==
    \A i \in Invs :
        (Done(i) /\ Repo(i) /\ SuccessfulRepo(remote[i]) /\ IsSummary(result[i])) =>
            /\ remote[i].repo.description \in {JNull, JAbsent}
               => result[i].text[3] = <<"Description: ", "No description">>
            /\ remote[i].repo.primaryLanguage = JNull
               => result[i].text[9] = <<"Primary Language: ", "None">>

C8_ScopesIsolated ==
    /\ \A i \in Invs : pc[i] \in {"open", "await"} => client[i] \in open
    /\ \A i, j \in Invs : (i # j /\ client[i] # 0) => client[i] # client[j]
    /\ open = { client[i] : i \in { j \in Invs : pc[j] \in {"open", "await"} } }
    /\ (\A i \in Invs : Done(i)) => open = {}
    /\ \A i \in Invs : (Returned(i) /\ Repo(i)) =>
           /\ calls[i] = 1 /\ client[i] # 0
           /\ got[i].from = i /\ got[i].resp = remote[i]
           /\ got[i].req = { <<"owner", args[i][1]>>, <<"name", args[i][2]>> }
    /\ \A i \in Invs : (Done(i) /\ Repo(i)) =>
           result[i] = get_repository_info_format(args[i][1], args[i][2],
                                                  make_github_request_body(remote[i]))

C8_Witness ==
    \E i, j \in Invs :
        /\ i # j /\ Repo(i) /\ Repo(j)
        /\ Done(i) /\ IsTimeout(remote[i]) /\ client[i] \notin open
        /\ pc[j] = "await" /\ wire[client[j]].state = "answered"
        /\ ~FailedCall(remote[j]) /\ client[j] \in open

\* C9: each invocation of get_repository_info executes the client exactly
\* once and each execution issues exactly one POST; after a failure no
\* further POST is issued (nothing is retried).
C9_OnePostNoRetry ==
    \A i \in Invs :
        /\ calls[i] <= 1 /\ posts[i] <= calls[i]
        /\ (Repo(i) /\ pc[i] \in {"await", "handler", "done"}) =>
               (calls[i] = 1 /\ posts[i] = 1)
        /\ (Repo(i) /\ Done(i) /\ FailedCall(remote[i])) => posts[i] = 1

C9_Witness ==
    \E i \in Invs :
        /\ Repo(i) /\ Done(i) /\ IsGraphqlErrors(remote[i])
        /\ calls[i] = 1 /\ posts[i] = 1

\* C10: a failed call is classified by the precedence timeout, http-status,
\* graphql-errors, unexpected: a timeout is reported as such; a non-2xx
\* response as http-status even when its body has `errors` or does not
\* parse; graphql-errors only for a 2xx response with a parsed body; every
\* other exception as unexpected; and all four return no payload.
C10_Precedence ==
    \A i \in Invs :
        (Returned(i) /\ calls[i] = 1) =>
            LET r == got[i].resp
                k == Reported(ret[i].printed)
            IN  /\ IsTimeout(r) => k = "timeout"
                /\ IsHttpStatus(r) =>
                       (k = "http-status" /\ Tail(ret[i].printed) = IntStr(r.status))
                /\ k = "graphql-errors" =>
                       (r.outcome = "response" /\ r.status \in 200..299 /\ r.parses)
                /\ IsGraphqlErrors(r) => k = "graphql-errors"
                /\ IsUnexpected(r) => k = "unexpected"
                /\ k \in {"timeout", "http-status", "graphql-errors", "unexpected", "none"}
                /\ k # "none" => ret[i].isNone
                /\ FailedCall(r) => k # "none"

C10_Witness ==
    \E i \in Invs :
        /\ Returned(i) /\ calls[i] = 1
        /\ got[i].resp.status = 500 /\ ~got[i].resp.parses
        /\ got[i].resp.errors = "nonempty"
        /\ Reported(ret[i].printed) = "http-status" /\ ret[i].isNone

====
